---- MODULE Spec2Model ----
(***************************************************************************)
(* gpt-graphic-design-evaluator: the prompt catalog, the image encoder,    *)
(* the result schemas and the absolute, relative and legacy evaluators.    *)
(* One call of the library is one behaviour: Init draws the call, its      *)
(* arguments and the replies the model collaborator will give, and the     *)
(* action of the called operation runs it to its return or its exception. *)
(***************************************************************************)
EXTENDS Integers, Sequences, FiniteSets, TLC

(* Largest num_return a call is made with. *)
MaxNumReturn == 3

(* A template token: literal text, or a placeholder naming an input key. *)
Lit(s) == [var |-> FALSE, text |-> s]
Var(k) == [var |-> TRUE, text |-> k]

(* gpt_evaluators/prompts.py: the instruction texts of the catalog, verbatim. *)
DEFAULT_ALIGNMENT_DESIGN_PRINCIPLE ==
  "Correct alignment is an important aspect of design that has been modeled in other layout applications. Text and graphic elements are aligned on the page to indicate organizational structure and aesthetics.\n\nPlease evaluate the alignment of the input graphic design considering the following points.\n\n1. Alignment along with the horizontal and vertical direction is considered.\n2. The elements that align at a glance but slight misalignment are penalized because it is visually displeasing.\n3. Larger alignment groups (i.e., aligned elements that are distant from each other) are preferred as they produce simpler designs with more unity between elements."

DEFAULT_OVERLAP_DESIGN_PRINCIPLE ==
  "Overlapping elements are common in many designs and absent from others.\nLess or proper overlapping might be considered aesthetically pleasing, but others are not.\n\nPlease consider the following points to evaluate the overlap.\n\n1. The three types of overlap, the overlap of elements on text, the overlap of text on graphics, and the overlap of graphics on other graphics, are considered.\n2. Hard-to-read text because of insufficient color contrast between a text and the background color is penalized.\n3. The graphic design that includes elements extending past the boundaries is also penalized."

DEFAULT_WHITE_SPACE_DESIGN_PRINCIPLE ==
  "White space in graphic designs is fundamental for readability and aesthetics. Element distance is also closely related to the principle of proximity, as elements placed near each other may appear to be related. White space also influences the overall design style; many modern designs use significant white space. White space 'trapped' between elements can also be distracting. \n\nEvaluate the white space considering the following points.\n\n1.A large ratio of white space that is not covered by design elements (e.g., graphics and tests) is preferred.\n2. However, the graphic design with a too large region of empty white space on the image is undesirable.\n3. The greater the distance between each element is preferred.\n4. Uniformed vertical spacing of each text element is preferred.\n5. Wider border margins for each element are preferred."

(* evaluator.py: the legacy module keeps its own copies of the texts. *)
ALIGNMENT_DESIGN_PRINCIPLE ==
  "Correct alignment is an important aspect of design that has been modeled in other layout applications. Text and graphic elements are aligned on the page to indicate organizational structure and aesthetics.\n\nPlease evaluate the alignment of the input graphic design considering the following points.\n\n1. Alignment along with the horizontal and vertical direction is considered.\n2. The elements that align at a glance but slight misalignment are penalized because it is visually displeasing.\n3. Larger alignment groups (i.e., aligned elements that are distant from each other) are preferred as they produce simpler designs with more unity between elements."

OVERLAP_DESIGN_PRINCIPLE ==
  "Overlapping elements are common in many designs and absent from others.\nLess or proper overlapping might be considered aesthetically pleasing, but others are not.\n\nPlease consider the following points to evaluate the overlap.\n\n1. The three types of overlap, the overlap of elements on text, the overlap of text on graphics, and the overlap of graphics on other graphics, are considered.\n2. Hard-to-read text because of insufficient color contrast between a text and the background color is penalized.\n3. The graphic design that includes elements extending past the boundaries is also penalized."

WHITE_SPACE_DESIGN_PRINCIPLE ==
  "White space in graphic designs is fundamental for readability and aesthetics. Element distance is also closely related to the principle of proximity, as elements placed near each other may appear to be related. White space also influences the overall design style; many modern designs use significant white space. White space 'trapped' between elements can also be distracting. \n\nEvaluate the white space considering the following points.\n\n1.A large ratio of white space that is not covered by design elements (e.g., graphics and tests) is preferred.\n2. However, the graphic design with a too large region of empty white space on the image is undesirable.\n3. The greater the distance between each element is preferred.\n4. Uniformed vertical spacing of each text element is preferred.\n5. Wider border margins for each element are preferred."

(* The system prompt templates, as the f-string template parser reads them:
   literal text ("{{" and "}}" read as one brace) around the placeholder. *)
ABSOLUTE_DEFAULT_SYSTEM_PROMPT ==
  << Lit("You are an autonomous AI Assistant who aids designers by providing insightful, objective, and constructive critiques of graphic design projects. Your goals are: \"Deliver comprehensive and unbiased evaluations of graphic designs based on the following design principles.\"\n\nGrade seriously. The range of scores is from 1 to 10. A flawless design can earn 10 points, a mediocre design can only earn 7 points, a design with obvious shortcomings can only earn 4 points, and a very poor design can only earn 1-2 points.\n\n"),
     Var("design_principle"),
     Lit("\n\nIf the output is too long, it will be truncated. Only respond in JSON format, no other information. Example of output for a better graphic design:\n\n{\n    \"score\": 6, \n    \"explanation\": \"Please concisely explain the reason of the score.\"\n}") >>

RELATIVE_DEFAULT_SYSTEM_PROMPT ==
  << Lit("You are an autonomous AI Assistant who aids designers by providing insightful, objective, and constructive\ncritiques of graphic design projects. \n\nYour goals are: \"Deliver comprehensive and unbiased evaluations of graphic designs based on the following design principles.\"\n\n"),
     Var("design_principle"),
     Lit("\n\nIf the output is too long, it will be truncated. Only respond in JSON format, no other information. Example of output for a better graphic design (a):\n\n{\n    \"better_design\": \"a\",\n    \"explanation\": \"(Please concisely explain the reason of choice.)\"\n}\n\nIf both images are the same quality, answer\n\n{\n    \"better_design\": \"both\", \n    \"explanation\": \"(Please concisely explain the reason of choice.)\"\n}\n") >>

SYSTEM_PROMPT ==
  << Lit("You are an autonomous AI Assistant who aids designers by providing insightful, objective, and constructive critiques of graphic design projects. Your goals are: \"Deliver comprehensive and unbiased evaluations of graphic designs based on the following design principles.\"\n\nGrade seriously. The range of scores is from 1 to 10. A flawless design can earn 10 points, a mediocre design can only earn 7 points, a design with obvious shortcomings can only earn 4 points, and a very poor design can only earn 1-2 points.\n\n"),
     Var("design_principle"),
     Lit("\n\nIf the output is too long, it will be truncated. Only respond in JSON format, no other information. Example of output for a better graphic design:\n\n{\n    \"score\": 6, \n    \"explanation\": \"Please concisely explain the reason of the score.\"\n}") >>

ABSOLUTE_USER_PROMPT ==
  "Please score the following images."

RELATIVE_USER_PROMPT ==
  "Which of the following graphic designs has better quality regarding the above-described points? (a)[image] (b)[image]\n"

USER_PROMPT ==
  "Please score the following images."

(***************************************************************************)
(* prompts.py / evaluator.py: the catalog.                                 *)
(***************************************************************************)
DesignPrinciple == {"alignment", "overlap", "whitespace"}

DESIGN_PRINCIPLES ==
  [t \in DesignPrinciple |->
     CASE t = "alignment"  -> DEFAULT_ALIGNMENT_DESIGN_PRINCIPLE
       [] t = "overlap"    -> DEFAULT_OVERLAP_DESIGN_PRINCIPLE
       [] t = "whitespace" -> DEFAULT_WHITE_SPACE_DESIGN_PRINCIPLE]

LEGACY_DESIGN_PRINCIPLES ==
  [t \in DesignPrinciple |->
     CASE t = "alignment"  -> ALIGNMENT_DESIGN_PRINCIPLE
       [] t = "overlap"    -> OVERLAP_DESIGN_PRINCIPLE
       [] t = "whitespace" -> WHITE_SPACE_DESIGN_PRINCIPLE]

(* A plausible slip: dict.get with an empty default instead of indexing. *)
LookupWithDefault(catalog, tag) ==
  [ok |-> TRUE, text |-> IF tag \in DOMAIN catalog THEN catalog[tag] ELSE ""]

(* catalog[tag]: the text, or KeyError when the tag is no key. *)
Lookup(catalog, tag) ==
  IF tag \in DOMAIN catalog
    THEN [ok |-> TRUE, text |-> catalog[tag]]
    ELSE [ok |-> FALSE, text |-> ""]

(***************************************************************************)
(* utils.py: image_to_base64.  An image is held as the bytes image.save    *)
(* writes for it (its PNG serialisation); b64encode is computed on them.   *)
(***************************************************************************)
B64Alphabet ==
  << "A","B","C","D","E","F","G","H","I","J","K","L","M","N","O","P",
     "Q","R","S","T","U","V","W","X","Y","Z","a","b","c","d","e","f",
     "g","h","i","j","k","l","m","n","o","p","q","r","s","t","u","v",
     "w","x","y","z","0","1","2","3","4","5","6","7","8","9","+","/" >>

B64Char(n) == B64Alphabet[(n % 64) + 1]

(* One group of 1..3 bytes to 4 characters, padded with "=". *)
B64Group(g) ==
  LET b1 == g[1]
      b2 == IF Len(g) >= 2 THEN g[2] ELSE 0
      b3 == IF Len(g) >= 3 THEN g[3] ELSE 0
      n  == b1 * 65536 + b2 * 256 + b3
  IN  B64Char(n \div 262144) \o B64Char(n \div 4096)
        \o (IF Len(g) >= 2 THEN B64Char(n \div 64) ELSE "=")
        \o (IF Len(g) >= 3 THEN B64Char(n) ELSE "=")

RECURSIVE b64encode(_)
b64encode(bytes) ==
  IF Len(bytes) = 0 THEN ""
  ELSE IF Len(bytes) <= 3 THEN B64Group(bytes)
  ELSE B64Group(SubSeq(bytes, 1, 3)) \o b64encode(SubSeq(bytes, 4, Len(bytes)))

image_to_base64(image) == b64encode(image)

_image_to_base64(image) == b64encode(image)

(***************************************************************************)
(* Python outcomes: a returned value or a raised exception.                *)
(***************************************************************************)
Returned(v) == [kind |-> "returned", value |-> v, error |-> "none"]
Raised(e)   == [kind |-> "raised", value |-> << >>, error |-> e]
Pending     == [kind |-> "pending", value |-> << >>, error |-> "none"]

(***************************************************************************)
(* The result schemas (pydantic models).  Construction returns the object  *)
(* with the fields as given, or raises ValidationError.                    *)
(***************************************************************************)
(* A plausible slip: clamp the score into the range instead of rejecting. *)
AbsoluteEvaluationResultClamped(score, explanation) ==
  Returned([score |-> IF score < 1 THEN 1 ELSE IF score > 10 THEN 10 ELSE score,
            explanation |-> explanation])

AbsoluteEvaluationResult(score, explanation) ==
  IF score >= 1 /\ score <= 10
    THEN Returned([score |-> score, explanation |-> explanation])
    ELSE Raised("ValidationError")

(* A plausible slip: gt=1 for ge=1. *)
EvaluationResultExclusive(score, explanation) ==
  IF score > 1 /\ score <= 10
    THEN Returned([score |-> score, explanation |-> explanation])
    ELSE Raised("ValidationError")

EvaluationResult(score, explanation) ==
  IF score >= 1 /\ score <= 10
    THEN Returned([score |-> score, explanation |-> explanation])
    ELSE Raised("ValidationError")

(* A plausible slip: the side labels of the prompt's example in the Literal. *)
RelativeEvaluationResultSides(better_design, explanation) ==
  IF better_design \in {"a", "b", "both"}
    THEN Returned([better_design |-> better_design, explanation |-> explanation])
    ELSE Raised("ValidationError")

RelativeEvaluationResult(better_design, explanation) ==
  IF better_design \in {"none", "small", "medium", "large", "both"}
    THEN Returned([better_design |-> better_design, explanation |-> explanation])
    ELSE Raised("ValidationError")

(***************************************************************************)
(* The model collaborator.  Its answer to one request is a reply (the      *)
(* fields of the JSON object it produced) or a transport failure;          *)
(* llm.with_structured_output(schema) coerces a reply into the schema.     *)
(***************************************************************************)
ScoreReply(s, e)      == [kind |-> "reply", score |-> s, explanation |-> e]
PreferenceReply(p, e) == [kind |-> "reply", better_design |-> p, explanation |-> e]
TransportFailure      == [kind |-> "transport"]

(* llm is the list of the collaborator's answers to the successive requests
   of a call; once the list is used up it keeps giving the last one. *)
Answer(llm, i) == IF i <= Len(llm) THEN llm[i] ELSE llm[Len(llm)]

AbsoluteStructuredOutput(raw) ==
  IF raw.kind = "transport" THEN Raised("TransportError")
  ELSE AbsoluteEvaluationResult(raw.score, raw.explanation)

LegacyStructuredOutput(raw) ==
  IF raw.kind = "transport" THEN Raised("TransportError")
  ELSE EvaluationResult(raw.score, raw.explanation)

RelativeStructuredOutput(raw) ==
  IF raw.kind = "transport" THEN Raised("TransportError")
  ELSE RelativeEvaluationResult(raw.better_design, raw.explanation)

(***************************************************************************)
(* Prompt composition and formatting.                                      *)
(***************************************************************************)
(* Optional[str] template argument. *)
None       == [some |-> FALSE, tpl |-> << >>]
Some(tpl)  == [some |-> TRUE, tpl |-> tpl]

(* `system_prompt_template or DEFAULT`: None and the empty string are falsy. *)
OrDefault(template, default) ==
  IF template.some /\ template.tpl # << >> THEN template.tpl ELSE default

RECURSIVE Format(_, _)
Format(tpl, input) ==
  IF Len(tpl) = 0 THEN ""
  ELSE (IF Head(tpl).var THEN input[Head(tpl).text] ELSE Head(tpl).text)
         \o Format(Tail(tpl), input)

(* ChatPromptTemplate.from_messages([system_prompt, user_prompt]): the user
   message is the instruction text and one image_url part. *)
ComposePrompt(system_prompt_template, user_text) ==
  [system |-> system_prompt_template,
   user   |-> << [type |-> "text", text |-> << Lit(user_text) >>],
                 [type |-> "image_url",
                  url  |-> << Lit("data:image/png;base64,"), Var("base64_image") >>] >>]

NoPrompt == [system |-> << >>, user |-> << >>]

FormatPart(part, input) ==
  IF part.type = "text"
    THEN [type |-> "text", text |-> Format(part.text, input)]
    ELSE [type |-> "image_url", url |-> Format(part.url, input)]

(* The request the prompt step hands to the model for one input. *)
FormatPrompt(prompt, input) ==
  [system |-> Format(prompt.system, input),
   user   |-> [i \in 1..Len(prompt.user) |-> FormatPart(prompt.user[i], input)]]

(***************************************************************************)
(* inputs = [input_data] * num_return                                      *)
(***************************************************************************)
(* Plausible slips: the list not multiplied; one input too many; at least
   one input whatever num_return is. *)
InputsSingle(input_data, num_return) == << input_data >>

InputsOffByOne(input_data, num_return) ==
  [i \in 1..(num_return + 1) |-> input_data]

InputsAtLeastOne(input_data, num_return) ==
  [i \in 1..(IF num_return < 1 THEN 1 ELSE num_return) |-> input_data]

Inputs(input_data, num_return) == [i \in 1..num_return |-> input_data]

(***************************************************************************)
(* chain.batch(inputs): every input is formatted and handed to the model;  *)
(* the outputs come back in input order, and a failing element makes the   *)
(* whole batch raise.  Which failure is raised when several elements fail  *)
(* is the collaborator's choice: the set holds every possible outcome.     *)
(***************************************************************************)
Failed(outs) == {i \in 1..Len(outs) : outs[i].kind = "raised"}

(* A plausible slip: return_exceptions-style filtering that drops failures. *)
BatchDropFailed(outs) ==
  LET ok == SelectSeq(outs, LAMBDA o : o.kind = "returned")
  IN  {Returned([i \in 1..Len(ok) |-> ok[i].value])}

Batch(outs) ==
  IF Failed(outs) = {}
    THEN {Returned([i \in 1..Len(outs) |-> outs[i].value])}
    ELSE {Raised(outs[i].error) : i \in Failed(outs)}

(* What one run of an operation leaves behind. *)
Run(prompt, requests, outcomes) ==
  [prompt |-> prompt, requests |-> requests, outcomes |-> outcomes]

(***************************************************************************)
(* absolute_evaluator.py                                                   *)
(***************************************************************************)
AbsoluteEvaluate(llm, image, design_principle_prompt, system_prompt_template, num_return) ==
  LET template   == OrDefault(system_prompt_template, ABSOLUTE_DEFAULT_SYSTEM_PROMPT)
      prompt     == ComposePrompt(template, ABSOLUTE_USER_PROMPT)
      input_data == [design_principle |-> design_principle_prompt,
                     base64_image     |-> image_to_base64(image)]
      inputs     == Inputs(input_data, num_return)
      requests   == [i \in 1..Len(inputs) |-> FormatPrompt(prompt, inputs[i])]
      outs       == [i \in 1..Len(inputs) |-> AbsoluteStructuredOutput(Answer(llm, i))]
  IN  Run(prompt, requests, Batch(outs))

AbsoluteCall(llm, image, design_principle, num_return) ==
  LET text == Lookup(DESIGN_PRINCIPLES, design_principle)
  IN  IF ~text.ok THEN Run(NoPrompt, << >>, {Raised("KeyError")})
      ELSE AbsoluteEvaluate(llm, image, text.text,
                            Some(ABSOLUTE_DEFAULT_SYSTEM_PROMPT), num_return)

(***************************************************************************)
(* relative_evaluator.py.  evaluate composes the prompt and then reads the *)
(* name `image`, which is neither a parameter (image_a, image_b) nor a     *)
(* module global: building input_data raises NameError.                    *)
(***************************************************************************)
RelativeEvaluate(llm, image_a, image_b, design_principle_prompt, system_prompt_template, num_return) ==
  LET template == OrDefault(system_prompt_template, RELATIVE_DEFAULT_SYSTEM_PROMPT)
      prompt   == ComposePrompt(template, RELATIVE_USER_PROMPT)
  IN  Run(prompt, << >>, {Raised("NameError")})

RelativeCall(llm, image_a, image_b, design_principle, num_return) ==
  LET text == Lookup(DESIGN_PRINCIPLES, design_principle)
  IN  IF ~text.ok THEN Run(NoPrompt, << >>, {Raised("KeyError")})
      ELSE RelativeEvaluate(llm, image_a, image_b, text.text,
                            Some(RELATIVE_DEFAULT_SYSTEM_PROMPT), num_return)

(***************************************************************************)
(* evaluator.py: the legacy evaluator, one request through chain.invoke.   *)
(***************************************************************************)
LegacyEvaluate(llm, image, design_principle_prompt, system_prompt_template) ==
  LET template   == OrDefault(system_prompt_template, SYSTEM_PROMPT)
      prompt     == ComposePrompt(template, USER_PROMPT)
      input_data == [design_principle |-> design_principle_prompt,
                     base64_image     |-> _image_to_base64(image)]
  IN  Run(prompt, << FormatPrompt(prompt, input_data) >>,
          {LegacyStructuredOutput(Answer(llm, 1))})

LegacyCall(llm, image, design_principle) ==
  LET text == Lookup(LEGACY_DESIGN_PRINCIPLES, design_principle)
  IN  IF ~text.ok THEN Run(NoPrompt, << >>, {Raised("KeyError")})
      ELSE LegacyEvaluate(llm, image, text.text, Some(SYSTEM_PROMPT))

(***************************************************************************)
(* The inputs a call is drawn from.                                        *)
(***************************************************************************)
Images == { << 137, 80, 78, 71 >>, << 137, 80, 78, 71, 13, 10 >> }

NoImage == << >>

PrincipleTexts == { DEFAULT_OVERLAP_DESIGN_PRINCIPLE, "Judge the use of colour." }

Templates ==
  { None, Some(<< >>), Some(<< Lit("Be strict. "), Var("design_principle") >>) }

Tags == DesignPrinciple \cup { "colour", "Alignment" }

NumReturns == 0..MaxNumReturn

Scores == { 0, 1, 7, 10, 11, 99 }

Preferences == { "none", "small", "medium", "large", "both", "a", "b" }

Explanations == { "ok" }

ScoreReplies ==
  { ScoreReply(s, e) : s \in Scores, e \in Explanations } \cup { TransportFailure }

PreferenceReplies ==
  { PreferenceReply(p, e) : p \in { "small", "both", "a" }, e \in Explanations }
    \cup { TransportFailure }

(* The answers to the requests of a call with num_return = n. *)
Scripts(replies, n) == [1..(IF n < 1 THEN 1 ELSE n) -> replies]

Call(op, image, image_b, principle, template, num_return, score, better_design) ==
  [op |-> op, image |-> image, image_b |-> image_b, principle |-> principle,
   template |-> template, num_return |-> num_return, score |-> score,
   better_design |-> better_design, explanation |-> "ok"]

VARIABLES
  call,      \* the operation called and its arguments
  llm,       \* the collaborator's answers to the requests of the call
  prompt,    \* the prompt template the operation composed
  requests,  \* the requests handed to the collaborator, in order
  outcome    \* what the caller got: pending, a returned value, an exception

vars == << call, llm, prompt, requests, outcome >>

InitCall ==
  \/ \E i \in Images, p \in PrincipleTexts, t \in Templates, n \in NumReturns :
       /\ call = Call("absolute.evaluate", i, NoImage, p, t, n, 0, "")
       /\ llm \in Scripts(ScoreReplies, n)
  \/ \E i \in Images, p \in Tags, n \in NumReturns :
       /\ call = Call("absolute.__call__", i, NoImage, p, None, n, 0, "")
       /\ llm \in Scripts(ScoreReplies, n)
  \/ \E a \in Images, b \in Images, p \in PrincipleTexts, t \in Templates,
        n \in NumReturns :
       /\ call = Call("relative.evaluate", a, b, p, t, n, 0, "")
       /\ llm \in Scripts(PreferenceReplies, n)
  \/ \E a \in Images, b \in Images, p \in Tags, n \in NumReturns :
       /\ call = Call("relative.__call__", a, b, p, None, n, 0, "")
       /\ llm \in Scripts(PreferenceReplies, n)
  \/ \E i \in Images, p \in PrincipleTexts, t \in Templates :
       /\ call = Call("legacy.evaluate", i, NoImage, p, t, 1, 0, "")
       /\ llm \in Scripts(ScoreReplies, 1)
  \/ \E i \in Images, p \in Tags :
       /\ call = Call("legacy.__call__", i, NoImage, p, None, 1, 0, "")
       /\ llm \in Scripts(ScoreReplies, 1)
  \/ \E s \in Scores, k \in { "AbsoluteEvaluationResult", "EvaluationResult" } :
       /\ call = Call(k, NoImage, NoImage, "", None, 0, s, "")
       /\ llm = << >>
  \/ \E b \in Preferences :
       /\ call = Call("RelativeEvaluationResult", NoImage, NoImage, "", None, 0, 0, b)
       /\ llm = << >>

Init ==
  /\ InitCall
  /\ prompt = NoPrompt
  /\ requests = << >>
  /\ outcome = Pending

(* The called operation runs to its end. *)
Finish(op, run) ==
  /\ call.op = op
  /\ outcome.kind = "pending"
  /\ prompt' = run.prompt
  /\ requests' = run.requests
  /\ outcome' \in run.outcomes
  /\ UNCHANGED << call, llm >>

GPTGraphicDesignAbsoluteEvaluator_evaluate ==
  Finish("absolute.evaluate",
         AbsoluteEvaluate(llm, call.image, call.principle, call.template,
                          call.num_return))

GPTGraphicDesignAbsoluteEvaluator_call ==
  Finish("absolute.__call__",
         AbsoluteCall(llm, call.image, call.principle, call.num_return))

GPTGraphicDesignRelativeEvaluator_evaluate ==
  Finish("relative.evaluate",
         RelativeEvaluate(llm, call.image, call.image_b, call.principle,
                          call.template, call.num_return))

GPTGraphicDesignRelativeEvaluator_call ==
  Finish("relative.__call__",
         RelativeCall(llm, call.image, call.image_b, call.principle,
                      call.num_return))

GPTGraphicDesignEvaluator_evaluate ==
  Finish("legacy.evaluate",
         LegacyEvaluate(llm, call.image, call.principle, call.template))

GPTGraphicDesignEvaluator_call ==
  Finish("legacy.__call__", LegacyCall(llm, call.image, call.principle))

NewAbsoluteEvaluationResult ==
  Finish("AbsoluteEvaluationResult",
         Run(NoPrompt, << >>,
             {AbsoluteEvaluationResult(call.score, call.explanation)}))

NewEvaluationResult ==
  Finish("EvaluationResult",
         Run(NoPrompt, << >>, {EvaluationResult(call.score, call.explanation)}))

NewRelativeEvaluationResult ==
  Finish("RelativeEvaluationResult",
         Run(NoPrompt, << >>,
             {RelativeEvaluationResult(call.better_design, call.explanation)}))

Next ==
  \/ GPTGraphicDesignAbsoluteEvaluator_evaluate
  \/ GPTGraphicDesignAbsoluteEvaluator_call
  \/ GPTGraphicDesignRelativeEvaluator_evaluate
  \/ GPTGraphicDesignRelativeEvaluator_call
  \/ GPTGraphicDesignEvaluator_evaluate
  \/ GPTGraphicDesignEvaluator_call
  \/ NewAbsoluteEvaluationResult
  \/ NewEvaluationResult
  \/ NewRelativeEvaluationResult

Spec == Init /\ [][Next]_vars

(***************************************************************************)
(* Properties.                                                             *)
(***************************************************************************)
Done == outcome.kind # "pending"

AbsoluteOps == { "absolute.evaluate", "absolute.__call__" }
RelativeOps == { "relative.evaluate", "relative.__call__" }

(* evaluate was entered: a direct call, or the shortcut with a known tag. *)
EvaluateEntered ==
  \/ call.op \in { "absolute.evaluate", "relative.evaluate" }
  \/ call.op \in { "absolute.__call__", "relative.__call__" }
       /\ call.principle \in DesignPrinciple

(* The collaborator's answers to the requests that were issued. *)
Issued == 1..Len(requests)

ScoreInRange(r)    == r.kind = "reply" /\ r.score \in 1..10
ScoreOutOfRange(r) == r.kind = "reply" /\ r.score \notin 1..10

AsResult(r) == [score |-> r.score, explanation |-> r.explanation]

TypeOK ==
  /\ outcome.kind \in { "pending", "returned", "raised" }
  /\ outcome.error \in { "none", "KeyError", "NameError", "ValidationError",
                         "TransportError" }
  /\ Len(requests) <= MaxNumReturn

(* C1: the absolute evaluator's principle-tag shortcut, called with a known
   tag and num_return >= 1 against a collaborator that gives the same
   schema-valid reply to every request, returns exactly num_return results,
   each equal to that reply. *)
C1_SameValidReply ==
  /\ call.op = "absolute.__call__"
  /\ call.principle \in DesignPrinciple
  /\ call.num_return >= 1
  /\ \A i \in 1..Len(llm) : ScoreInRange(llm[i]) /\ llm[i] = llm[1]

C1_CallReturnsNumReturnEqualResults ==
  (C1_SameValidReply /\ Done) =>
     /\ outcome.kind = "returned"
     /\ Len(outcome.value) = call.num_return
     /\ \A i \in 1..Len(outcome.value) : outcome.value[i] = AsResult(llm[1])

C1_Witness ==
  /\ C1_SameValidReply
  /\ call.principle = "alignment"
  /\ call.num_return = 3
  /\ llm[1].score = 7
  /\ outcome.kind = "returned"
  /\ Len(outcome.value) = 3

(* C2: the user message the relative evaluator composes for
   evaluate(image_a, image_b, ...) references two image payloads, the
   encoding of image_a and the encoding of image_b, and so does every
   request it sends. *)
ImageParts(user) == { i \in 1..Len(user) : user[i].type = "image_url" }

DataUrl(image) == "data:image/png;base64," \o image_to_base64(image)

C2_RelativeRequestHasBothImages ==
  (call.op \in RelativeOps /\ EvaluateEntered /\ Done) =>
     /\ Cardinality(ImageParts(prompt.user)) = 2
     /\ \A r \in Issued :
          { requests[r].user[i].url : i \in ImageParts(requests[r].user) }
            = { DataUrl(call.image), DataUrl(call.image_b) }

(* C3: the relative evaluator's evaluate, and its shortcut with a known tag,
   called with num_return >= 1 against a collaborator whose every reply is
   schema-valid, returns exactly num_return results. *)
C3_RelativeReturnsNumReturnResults ==
  ( /\ call.op \in RelativeOps /\ EvaluateEntered /\ Done
    /\ call.num_return >= 1
    /\ \A i \in 1..Len(llm) :
         llm[i].kind = "reply" /\ llm[i].better_design \in { "small", "both" } )
  => /\ outcome.kind = "returned"
     /\ Len(outcome.value) = call.num_return

(* C4, as stated: when the reply to a request of the absolute evaluator
   carries a score outside 1..10, the caller gets a validation failure. *)
SomeScoreOutOfRange == \E i \in Issued : ScoreOutOfRange(Answer(llm, i))
SomeTransportFailure == \E i \in Issued : Answer(llm, i).kind = "transport"

C4_OutOfRangeScoreIsAValidationFailure ==
  (call.op \in AbsoluteOps /\ Done /\ SomeScoreOutOfRange) =>
     /\ outcome.kind = "raised"
     /\ outcome.error = "ValidationError"

(* C4, amended: when the reply to a request of the absolute evaluator
   carries a score outside 1..10, the call fails: with a validation failure
   when no request of the call failed in transport, with a validation or a
   transport failure otherwise.  Every result the evaluator returns carries
   the score of its reply unaltered, and that score is in 1..10. *)
C4_OutOfRangeScoreFailsTheCall ==
  (call.op \in AbsoluteOps /\ Done) =>
     /\ SomeScoreOutOfRange =>
          /\ outcome.kind = "raised"
          /\ outcome.error \in { "ValidationError", "TransportError" }
          /\ ~SomeTransportFailure => outcome.error = "ValidationError"
     /\ outcome.kind = "returned" =>
          \A i \in 1..Len(outcome.value) :
             /\ outcome.value[i].score \in 1..10
             /\ outcome.value[i].score = Answer(llm, i).score

C4_Witness ==
  /\ call.op = "absolute.__call__"
  /\ call.num_return = 1
  /\ llm[1].kind = "reply" /\ llm[1].score = 99
  /\ outcome.kind = "raised"
  /\ outcome.error = "ValidationError"

(* C5: a call of evaluate with num_return = N > 1 returns a list of exactly
   N results or fails; when one of its requests fails, in transport or in
   validation, it fails. *)
RequestFails(i) ==
  Answer(llm, i).kind = "transport" \/ ScoreOutOfRange(Answer(llm, i))

C5_NoPartialResultList ==
  (call.op \in AbsoluteOps \cup RelativeOps /\ Done /\ call.num_return > 1) =>
     /\ outcome.kind = "returned" => Len(outcome.value) = call.num_return
     /\ (call.op \in AbsoluteOps /\ \E i \in Issued : RequestFails(i)) =>
          outcome.kind = "raised"

C5_Witness ==
  /\ call.op = "absolute.evaluate"
  /\ call.num_return = 3
  /\ ScoreInRange(llm[1]) /\ RequestFails(2) /\ ScoreInRange(llm[3])
  /\ Len(requests) = 3
  /\ outcome.kind = "raised"

(* C6: one call of evaluate with num_return = N hands the collaborator at
   most N requests, all identical, and exactly N when evaluate reaches its
   batch, whether or not requests fail: no request is sent again. *)
C6_NoRetry ==
  (call.op \in AbsoluteOps \cup RelativeOps /\ Done) =>
     /\ Len(requests) <= call.num_return
     /\ \A i \in Issued : requests[i] = requests[1]
     /\ (call.op \in AbsoluteOps /\ EvaluateEntered) =>
          Len(requests) = call.num_return

C6_Witness ==
  /\ call.op = "absolute.evaluate"
  /\ call.num_return = 2
  /\ llm[1].kind = "transport"
  /\ ScoreOutOfRange(llm[2])
  /\ outcome.kind = "raised"
  /\ Len(requests) = 2

(* C7: the absolute evaluator's evaluate with num_return = 0 returns the
   empty list and hands the collaborator no request. *)
C7_ZeroReturnsEmpty ==
  (call.op \in AbsoluteOps /\ EvaluateEntered /\ Done /\ call.num_return = 0) =>
     /\ outcome.kind = "returned"
     /\ Len(outcome.value) = 0
     /\ Len(requests) = 0

C7_Witness ==
  /\ call.op = "absolute.evaluate"
  /\ call.num_return = 0
  /\ outcome.kind = "returned"
  /\ requests = << >>

(* C8: constructing AbsoluteEvaluationResult or the legacy EvaluationResult
   with an integer score succeeds exactly when 1 <= score <= 10, the object
   then carrying that score; the results the evaluators return satisfy the
   same range. *)
C8_ScoreRange ==
  /\ (call.op \in { "AbsoluteEvaluationResult", "EvaluationResult" } /\ Done) =>
        /\ outcome.kind = "returned" <=> call.score \in 1..10
        /\ outcome.kind = "raised" => outcome.error = "ValidationError"
        /\ outcome.kind = "returned" => outcome.value.score = call.score
  /\ (call.op \in AbsoluteOps /\ outcome.kind = "returned") =>
        \A i \in 1..Len(outcome.value) : outcome.value[i].score \in 1..10
  /\ (call.op \in { "legacy.evaluate", "legacy.__call__" }
        /\ outcome.kind = "returned") => outcome.value.score \in 1..10

C8_Witness ==
  /\ call.op = "EvaluationResult"
  /\ call.score = 11
  /\ outcome.kind = "raised"

(* C9: constructing RelativeEvaluationResult succeeds exactly when
   better_design is one of none, small, medium, large, both; the side labels
   "a" and "b" of the system prompt's example reply are rejected. *)
C9_PreferenceTags ==
  (call.op = "RelativeEvaluationResult" /\ Done) =>
     /\ outcome.kind = "returned" <=>
          call.better_design \in { "none", "small", "medium", "large", "both" }
     /\ call.better_design \in { "a", "b" } =>
          outcome.kind = "raised" /\ outcome.error = "ValidationError"
     /\ outcome.kind = "returned" =>
          outcome.value.better_design = call.better_design

C9_Witness ==
  /\ call.op = "RelativeEvaluationResult"
  /\ call.better_design = "a"
  /\ outcome.kind = "raised"

(* C10: the catalog gives a non-empty text for alignment, overlap and
   whitespace and fails for any other tag; the shortcut called with an
   unknown tag fails with the lookup error and no request is issued, and
   called with a known tag it never fails with the lookup error. *)
ShortcutOps == { "absolute.__call__", "relative.__call__", "legacy.__call__" }

CatalogOf(op) ==
  IF op = "legacy.__call__" THEN LEGACY_DESIGN_PRINCIPLES ELSE DESIGN_PRINCIPLES

C10_UnknownTagFailsBeforeAnyRequest ==
  (call.op \in ShortcutOps /\ Done) =>
     /\ \A t \in DesignPrinciple :
          Lookup(CatalogOf(call.op), t).ok /\ Lookup(CatalogOf(call.op), t).text # ""
     /\ call.principle \notin DesignPrinciple =>
          /\ ~Lookup(CatalogOf(call.op), call.principle).ok
          /\ outcome.kind = "raised"
          /\ outcome.error = "KeyError"
          /\ requests = << >>
          /\ prompt = NoPrompt
     /\ call.principle \in DesignPrinciple =>
          /\ outcome.error # "KeyError"
          /\ prompt # NoPrompt

C10_Witness ==
  /\ call.op = "absolute.__call__"
  /\ call.principle = "colour"
  /\ call.num_return = 2
  /\ outcome.kind = "raised"
  /\ outcome.error = "KeyError"
  /\ requests = << >>

(* C11: in the absolute evaluator's evaluate, the system message of every
   request is the template with the principle text put in place of its
   design_principle placeholder; the template is the caller's whenever the
   caller passes one (any string) and the default only when the caller
   passes None; the shortcut uses the default template with the catalog's
   text for the tag. *)
C11_TemplateOf(template) ==
  IF template.some THEN template.tpl ELSE ABSOLUTE_DEFAULT_SYSTEM_PROMPT

C11_SystemMessageUsesSuppliedTemplate ==
  /\ (call.op = "absolute.evaluate" /\ Done) =>
        /\ prompt.system = C11_TemplateOf(call.template)
        /\ \A i \in Issued :
             requests[i].system =
               Format(C11_TemplateOf(call.template),
                      [design_principle |-> call.principle])
  /\ (call.op = "absolute.__call__" /\ call.principle \in DesignPrinciple /\ Done) =>
        /\ prompt.system = ABSOLUTE_DEFAULT_SYSTEM_PROMPT
        /\ \A i \in Issued :
             requests[i].system =
               Format(ABSOLUTE_DEFAULT_SYSTEM_PROMPT,
                      [design_principle |-> DESIGN_PRINCIPLES[call.principle]])
====
